---- MODULE Spec2Model ----
(***************************************************************************)
(* Model of the drone fleet controller, src/drone_controller.py            *)
(* (class DroneController): the registry discovered_drones, the listener   *)
(* thread(s) running _discovery_listener, and the facade operations that   *)
(* request threads call.  The class takes no lock, so the operations that  *)
(* loop over the registry are modelled statement by statement and          *)
(* interleave with the listener and with each other.                       *)
(***************************************************************************)
EXTENDS Integers, Sequences, FiniteSets, TLC

(* ------------------------------ bounds -------------------------------- *)
MaxTime == 31
MaxStarts == 2
MaxCalls == 2
MaxDatagrams == 2

(* ------------------------- program constants -------------------------- *)
TTL == 30
CommandTimeout == 5
DefaultPort == 14550
DefaultTakeoffAltitude == 10
DefaultGotoAltitude == 50
\* drone_wireless.py: the monitor loop's timeout, seconds.
MonitorTimeout == 30

(* ------------------------------ inputs -------------------------------- *)
DroneIds == {"drone-1", "drone-2"}
\* Source addresses (host, port) of datagrams, as recvfrom reports them.
Addr1 == <<"10.0.0.1", 40001>>
Addr2 == <<"10.0.0.2", 40002>>
UiAddr == <<"10.0.0.9", 40009>>
\* The clock is sampled where the comparisons of the code change their
\* outcome: a TTL apart and just over a TTL apart.
TickSteps == {TTL, TTL + 1}
\* Listener thread k is the one the k-th start_server call spawns, on socket k;
\* request threads carry the numbers 11 and 12.
Listeners == 1..MaxStarts
ReqThreads == {11, 12}
Threads == ReqThreads \cup Listeners

command_handlers ==
  {"arm", "disarm", "takeoff", "land", "return_to_launch", "goto_location",
   "get_telemetry"}

EmptyParams == [k \in {} |-> 0]

\* dict.get(key, default)
Get(m, k, default) == IF k \in DOMAIN m THEN m[k] ELSE default

\* Payloads of announce datagrams (JSON objects; a key is present or not).
Announce1 == [type |-> "drone_announce", drone_id |-> "drone-1"]
Announce1Port ==
  [type |-> "drone_announce", drone_id |-> "drone-1", port |-> DefaultPort + 1]
Announce1Status ==
  [type |-> "drone_announce", drone_id |-> "drone-1",
   pixhawk_status |-> "connected"]
Announce2 ==
  [type |-> "drone_announce", drone_id |-> "drone-2",
   pixhawk_status |-> "connected", name |-> "Bravo"]

\* Payloads of relayed command datagrams.
CommandPayloads ==
  { [type |-> "command", command |-> "arm", target_drone |-> "drone-1"],
    [type |-> "command", command |-> "self_destruct",
     target_drone |-> "drone-1"] }

\* What recvfrom on the listener socket can deliver, with the address it came
\* from: a JSON object with fields of the expected types ("json"), bytes
\* json.loads or decode rejects ("undecodable"), JSON that is not an object,
\* on which message.get raises ("not_object"), or an object with an
\* unhashable drone_id or command, on which the dict access raises
\* ("bad_field").
Datagram(payload, addr) == [kind |-> "json", payload |-> payload, addr |-> addr]

AnnounceDatagrams ==
  { Datagram(Announce1, Addr1), Datagram(Announce1, Addr2),
    Datagram(Announce1Port, Addr1), Datagram(Announce1Status, Addr1),
    Datagram(Announce2, Addr2) }

CommandDatagrams == { Datagram(p, UiAddr) : p \in CommandPayloads }

DroppedDatagrams ==
  { Datagram([type |-> "drone_announce", drone_id |-> ""], Addr1),
    Datagram([type |-> "drone_announce"], Addr1),
    Datagram([type |-> "telemetry"], UiAddr),
    Datagram([note |-> "no type"], UiAddr),
    Datagram([type |-> "command"], UiAddr),
    [kind |-> "undecodable", payload |-> [note |-> "no type"], addr |-> UiAddr],
    [kind |-> "not_object", payload |-> [note |-> "no type"], addr |-> UiAddr],
    [kind |-> "bad_field", payload |-> [type |-> "drone_announce"],
     addr |-> Addr1] }

Datagrams == AnnounceDatagrams \cup CommandDatagrams \cup DroppedDatagrams

\* (command, params) pairs request threads pass to send_command_to_drone.
CommandCalls ==
  { <<"arm", EmptyParams>>, <<"takeoff", [altitude |-> 15]>>,
    <<"self_destruct", EmptyParams>> }

\* params=None, the default of send_command_to_drone.
PyNone == [none |-> TRUE]

\* The convenience wrappers with the arguments a caller passes besides the
\* drone_id; an altitude that is not passed takes the default of the
\* signature.
WrapperCalls ==
  { <<"get_drone_telemetry", EmptyParams>>, <<"arm_drone", EmptyParams>>,
    <<"disarm_drone", EmptyParams>>, <<"land_drone", EmptyParams>>,
    <<"return_to_launch", EmptyParams>>,
    <<"takeoff_drone", EmptyParams>>, <<"takeoff_drone", [altitude |-> 15]>>,
    <<"goto_location", [latitude |-> 8, longitude |-> 13]>>,
    <<"goto_location", [latitude |-> 8, longitude |-> 13, altitude |-> 30]>> }

\* What recvfrom on an ephemeral socket can deliver before the timeout.
Replies ==
  { [kind |-> "result", result |-> [success |-> TRUE, error |-> ""]],
    [kind |-> "result", result |-> [success |-> FALSE, error |-> "rejected"]],
    [kind |-> "no_result"],
    [kind |-> "undecodable"] }

VARIABLES
  now,                \* wall clock, seconds (datetime.utcnow / time.time)
  discovered_drones,  \* self.discovered_drones: drone_id -> record
  dict_order,         \* insertion order of the keys of discovered_drones
  server_socket,      \* self.server_socket: 0 (None) or a socket number
  sock_state,         \* per listener socket: "none", "unbound", "bound", "closed"
  running,            \* self.running
  nsockets,           \* sockets start_server has created so far
  start_result,       \* what the last start_server call returned
  lpc,                \* per listener thread: position in _discovery_listener
  lsock,              \* per listener thread: socket its recvfrom is blocked on
  inbound,            \* per listener thread: the datagram of this iteration
  responses,          \* per listener thread: the answers sent in this iteration
  th,                 \* per thread: the facade call it is executing
  last_announce,      \* history: per drone_id, the last announce processed
  ncalls,             \* facade calls started so far
  ndatagrams,         \* datagrams delivered to the listener socket so far
  connected_drones,   \* DroneWirelessManager.connected_drones
  connected_order,    \* insertion order of the keys of connected_drones
  drone_status,       \* DroneWirelessManager.drone_status
  monitor,            \* the monitor thread: position, keys left to visit
  request             \* history: the last handler call of the manager

vars ==
  <<now, discovered_drones, dict_order, server_socket, sock_state, running,
    nsockets, start_result, lpc, lsock, inbound, responses, th, last_announce, ncalls, ndatagrams,
    connected_drones, connected_order, drone_status, monitor, request>>

regvars == <<discovered_drones, dict_order, last_announce>>
lifevars == <<server_socket, sock_state, running, nsockets, start_result>>
listenvars == <<lpc, lsock, inbound, responses>>
wvars == <<connected_drones, connected_order, drone_status, monitor, request>>
ctlvars ==
  <<regvars, lifevars, listenvars, th, ncalls, ndatagrams>>

(* ------------------------- thread-local state ------------------------- *)
NoResult == [success |-> FALSE, error |-> ""]
NoMsg == [type |-> "none"]
NoDatagram == [kind |-> "none", payload |-> [note |-> "no type"], addr |-> <<"", 0>>]
NoAnnounce == [message |-> [type |-> "none"], addr |-> <<"", 0>>, time |-> 0]
EmptyDict == [d \in {} |-> 0]

\* No handler of the wireless manager has been called yet.
NoRequest ==
  [op |-> "none", drone_id |-> "", outcome |-> "", code |-> 0, error |-> "",
   flip |-> FALSE]

\* The frame of a thread that is executing no facade call.
Idle ==
  [op |-> "idle", pc |-> "idle", drone_id |-> "", command |-> "",
   params |-> EmptyParams, current_time |-> 0, it_size |-> 0, it_pos |-> 0,
   expired |-> <<>>, drone_info |-> [id |-> ""], sock |-> "none",
   sent |-> NoMsg, nsent |-> 0, dest |-> <<"", 0>>, deadline |-> 0, result |-> NoResult,
   snapshot |-> EmptyDict, active_drones |-> 0, connected_drones |-> 0,
   server_running |-> FALSE, reply |-> "none", exc |-> "",
   at_call |-> EmptyDict, refreshed |-> {}, via |-> NoAnnounce,
   wrapper |-> "", wargs |-> EmptyParams, held |-> "none", edited |-> FALSE,
   msg |-> NoMsg, wire |-> NoMsg, decoded |-> NoMsg]

Frame(t, f) == [th EXCEPT ![t] = f]

(* ----------------------------- registry ------------------------------- *)
\* The dict keeps insertion order: storing under a new key appends the key,
\* storing under an existing key keeps its place.
DictStore(order, k) == IF \E i \in 1..Len(order) : order[i] = k
                         THEN order ELSE Append(order, k)

IndexOf(order, k) == CHOOSE i \in 1..Len(order) : order[i] = k

DictRemove(order, k) ==
  [i \in 1..(Len(order) - 1) |->
     IF i < IndexOf(order, k) THEN order[i] ELSE order[i + 1]]

\* Mutant of AnnounceRecord: the port is the source port of the datagram.
AnnounceRecordSourcePort(message, addr, time) ==
  [id |-> message.drone_id,
   name |-> Get(message, "name", message.drone_id),
   address |-> addr[1],
   port |-> addr[2],
   status |-> Get(message, "pixhawk_status", "unknown"),
   last_seen |-> time]

\* The record _handle_drone_announcement builds from a payload and the
\* datagram's source address (the remaining fields, battery_voltage, gps_fix,
\* flight_mode, armed, signal_strength, firmware_version, are copied with
\* message.get(field, default) in the same way as status and are left out).
AnnounceRecord(message, addr, time) ==
  [id |-> message.drone_id,
   name |-> Get(message, "name", message.drone_id),
   address |-> addr[1],
   port |-> Get(message, "port", DefaultPort),
   status |-> Get(message, "pixhawk_status", "unknown"),
   last_seen |-> time]

\* Mutant of HasDroneId: an empty drone_id passes the test.
HasDroneIdEmpty(message) == "drone_id" \in DOMAIN message

\* if drone_id: (a missing or empty drone_id is falsy)
HasDroneId(message) == "drone_id" \in DOMAIN message /\ message.drone_id # ""

\* Mutant of Upsert: a record that is already there is kept as it is.
UpsertKeepsFirst(reg, message, addr, time) ==
  [d \in DOMAIN reg \cup {message.drone_id} |->
     IF d \in DOMAIN reg THEN reg[d] ELSE AnnounceRecord(message, addr, time)]

Upsert(reg, message, addr, time) ==
  [d \in DOMAIN reg \cup {message.drone_id} |->
     IF d = message.drone_id THEN AnnounceRecord(message, addr, time)
     ELSE reg[d]]

Init ==
  /\ now = 0
  /\ discovered_drones = EmptyDict
  /\ dict_order = <<>>
  /\ server_socket = 0
  /\ sock_state = [s \in Listeners |-> "none"]
  /\ running = FALSE
  /\ nsockets = 0
  /\ start_result = FALSE
  /\ lpc = [k \in Listeners |-> "unborn"]
  /\ lsock = [k \in Listeners |-> 0]
  /\ inbound = [k \in Listeners |-> NoDatagram]
  /\ responses = [k \in Listeners |-> <<>>]
  /\ th = [t \in Threads |-> Idle]
  /\ last_announce = EmptyDict
  /\ ncalls = 0
  /\ ndatagrams = 0
  /\ connected_drones = EmptyDict
  /\ connected_order = <<>>
  /\ drone_status = EmptyDict
  /\ monitor = [pc |-> "while", keys |-> <<>>, error |-> ""]
  /\ request = NoRequest

(* ------------------------------- clock -------------------------------- *)
\* The clock is sampled coarsely: a loop over the registry that is under way
\* finishes well within one step of it.
InRegistryLoop(f) ==
  f.op \in {"get_discovered_drones", "get_system_status"}
    /\ f.pc \notin {"done", "raised"}

Tick ==
  /\ \A t \in ReqThreads : ~InRegistryLoop(th[t])
  /\ \E step \in TickSteps :
       /\ now + step <= MaxTime
       /\ now' = now + step
  /\ UNCHANGED <<regvars, lifevars, listenvars, th, ncalls, ndatagrams>>
  /\ UNCHANGED wvars

(* ----------------------------- lifecycle ------------------------------ *)
\* Mutant of StartEffect: self.running = True comes before bind.
StartEffectRunningFirst(s, bind_ok) ==
  /\ server_socket' = s
  /\ nsockets' = s
  /\ start_result' = bind_ok
  /\ sock_state' = [sock_state EXCEPT ![s] = IF bind_ok THEN "bound"
                                              ELSE "unbound"]
  /\ running' = TRUE
  /\ lpc' = IF bind_ok THEN [lpc EXCEPT ![s] = "check"] ELSE lpc

\* start_server, lines 48-67.  The socket object is stored in
\* self.server_socket before bind; bind raises when the port is taken, and
\* the except clause returns False.  Otherwise running is set, the listener
\* thread is started and True is returned.
StartEffect(s, bind_ok) ==
  /\ server_socket' = s
  /\ nsockets' = s
  /\ start_result' = bind_ok
  /\ sock_state' = [sock_state EXCEPT ![s] = IF bind_ok THEN "bound"
                                              ELSE "unbound"]
  /\ running' = IF bind_ok THEN TRUE ELSE running
  /\ lpc' = IF bind_ok THEN [lpc EXCEPT ![s] = "check"] ELSE lpc

start_server ==
  /\ nsockets < MaxStarts
  /\ \E bind_ok \in BOOLEAN : StartEffect(nsockets + 1, bind_ok)
  /\ UNCHANGED <<now, regvars, lsock, inbound, responses, th, ncalls,
                 ndatagrams>>
  /\ UNCHANGED wvars

\* Mutant of StopEffect: the socket is left open.
StopEffectNoClose(run, ss, sock) == [running |-> FALSE, sock_state |-> ss]

\* Lines 71-73: what stop_server makes of self.running and of the socket
\* self.server_socket names (None is 0).  close() of a closed socket does
\* nothing.
StopEffect(run, ss, sock) ==
  [running |-> FALSE,
   sock_state |-> IF sock # 0 THEN [ss EXCEPT ![sock] = "closed"] ELSE ss]

\* Mutant of stop_server: stopping also empties the registry.
stop_server_clears ==
  /\ running' = StopEffect(running, sock_state, server_socket).running
  /\ sock_state' = StopEffect(running, sock_state, server_socket).sock_state
  /\ discovered_drones' = [d \in {} |-> 0]
  /\ dict_order' = <<>>
  /\ UNCHANGED <<now, last_announce, server_socket, nsockets, start_result,
                 lpc, lsock, inbound, responses, th, ncalls, ndatagrams>>
  /\ UNCHANGED wvars

\* stop_server, lines 69-74.
stop_server ==
  /\ running' = StopEffect(running, sock_state, server_socket).running
  /\ sock_state' = StopEffect(running, sock_state, server_socket).sock_state
  /\ UNCHANGED <<now, regvars, server_socket, nsockets, start_result,
                 listenvars, th, ncalls, ndatagrams>>
  /\ UNCHANGED wvars

(* ----------------------- send_command_to_drone ------------------------ *)
Failure(text) == [success |-> FALSE, error |-> text]

\* Mutant of SendCommandEntry: the membership test of line 139 is missing.
SendCommandEntryNoTest(d, c, p) ==
  [Idle EXCEPT !.op = "send_command_to_drone", !.pc = "lookup",
               !.drone_id = d, !.command = c, !.params = p]

\* Entry and line 139-140: the membership test on the registry.
SendCommandEntry(d, c, p) ==
  IF d \notin DOMAIN discovered_drones
    THEN [Idle EXCEPT !.op = "send_command_to_drone", !.pc = "done",
                      !.drone_id = d, !.command = c, !.params = p,
                      !.result = Failure("Drone not found")]
    ELSE [Idle EXCEPT !.op = "send_command_to_drone", !.pc = "lookup",
                      !.drone_id = d, !.command = c, !.params = p]

\* A request thread that is in no call starts one.
CanCall(t) ==
  /\ t \in ReqThreads
  /\ th[t].op = "idle"
  /\ ncalls < MaxCalls

\* A request thread calls send_command_to_drone (or one of the wrappers,
\* lines 188-219, which pass a fixed command name).
send_command_call(t, d, c, p) ==
  /\ CanCall(t)
  /\ ncalls' = ncalls + 1
  /\ th' = Frame(t, SendCommandEntry(d, c, p))
  /\ UNCHANGED <<now, regvars, lifevars, listenvars, ndatagrams>>
  /\ UNCHANGED wvars

\* Lines 188-219: the command name each wrapper passes.
WrapperCommand(w) ==
  CASE w = "get_drone_telemetry" -> "get_telemetry"
    [] w = "arm_drone" -> "arm"
    [] w = "disarm_drone" -> "disarm"
    [] w = "takeoff_drone" -> "takeoff"
    [] w = "land_drone" -> "land"
    [] w = "return_to_launch" -> "return_to_launch"
    [] w = "goto_location" -> "goto_location"

\* Mutant of WrapperParams: takeoff_drone has the default altitude of
\* goto_location.
WrapperParamsOneDefault(w, a) ==
  CASE w = "takeoff_drone" ->
         [altitude |-> Get(a, "altitude", DefaultGotoAltitude)]
    [] w = "goto_location" ->
         [latitude |-> a.latitude, longitude |-> a.longitude,
          altitude |-> Get(a, "altitude", DefaultGotoAltitude)]
    [] OTHER -> PyNone

\* Lines 188-219: the params each wrapper passes; the wrappers without
\* parameters pass none, which leaves params at its default None.
WrapperParams(w, a) ==
  CASE w = "takeoff_drone" ->
         [altitude |-> Get(a, "altitude", DefaultTakeoffAltitude)]
    [] w = "goto_location" ->
         [latitude |-> a.latitude, longitude |-> a.longitude,
          altitude |-> Get(a, "altitude", DefaultGotoAltitude)]
    [] OTHER -> PyNone

\* A request thread calls a wrapper, which calls send_command_to_drone.
wrapper_call(t, w, d, a) ==
  /\ CanCall(t)
  /\ ncalls' = ncalls + 1
  /\ th' = Frame(t, [SendCommandEntry(d, WrapperCommand(w), WrapperParams(w, a))
                       EXCEPT !.wrapper = w, !.wargs = a])
  /\ UNCHANGED <<now, regvars, lifevars, listenvars, ndatagrams>>
  /\ UNCHANGED wvars

\* Line 142, outside the try block: the subscript raises KeyError when the
\* key was deleted after the test of line 139.
send_command_lookup(t) ==
  /\ th[t].pc = "lookup"
  /\ th' = Frame(t,
       IF th[t].drone_id \in DOMAIN discovered_drones
         THEN [th[t] EXCEPT !.pc = "send",
                            !.drone_info = discovered_drones[th[t].drone_id],
                            !.via = last_announce[th[t].drone_id]]
         ELSE [th[t] EXCEPT !.pc = "raised", !.exc = "KeyError"])
  /\ UNCHANGED <<now, regvars, lifevars, listenvars, ncalls, ndatagrams>>
  /\ UNCHANGED wvars

\* Line 150: params or {}
ParamsOrEmpty(p) == IF p = PyNone \/ p = EmptyParams THEN EmptyParams ELSE p

\* Lines 146-152: the command message (the timestamp is the clock reading).
CommandMessage(f) ==
  [type |-> "command", command |-> f.command, target_drone |-> f.drone_id,
   params |-> ParamsOrEmpty(f.params), timestamp |-> now]

\* Mutant of SendDatagram: sock.settimeout(5.0) is missing.
SendDatagramNoTimeout(f, send_ok) ==
  IF send_ok
    THEN [f EXCEPT !.pc = "recv", !.sock = "open",
                   !.sent = CommandMessage(f), !.nsent = @ + 1,
                   !.dest = <<f.drone_info.address, f.drone_info.port>>,
                   !.deadline = MaxTime + 1]
    ELSE [f EXCEPT !.pc = "done", !.sock = "open",
                   !.result = Failure("OSError")]

\* Lines 155-159: a fresh socket with a 5 s timeout, then sendto to
\* (drone_info['address'], drone_info['port']).  sendto may raise OSError,
\* which line 168 turns into a failure result.
SendDatagram(f, send_ok) ==
  IF send_ok
    THEN [f EXCEPT !.pc = "recv", !.sock = "open",
                   !.sent = CommandMessage(f), !.nsent = @ + 1,
                   !.dest = <<f.drone_info.address, f.drone_info.port>>,
                   !.deadline = now + CommandTimeout]
    ELSE [f EXCEPT !.pc = "done", !.sock = "open",
                   !.result = Failure("OSError")]

send_command_send(t) ==
  /\ th[t].pc = "send"
  /\ now + TTL <= MaxTime
  /\ \E send_ok \in BOOLEAN : th' = Frame(t, SendDatagram(th[t], send_ok))
  /\ UNCHANGED <<now, regvars, lifevars, listenvars, ncalls, ndatagrams>>
  /\ UNCHANGED wvars

\* Mutant of ReplyResult: a reply that does not decode makes the call send
\* the command again.
ReplyResultRetry(f, r) ==
  IF r.kind = "undecodable"
    THEN [f EXCEPT !.pc = "send", !.reply = r.kind]
    ELSE [f EXCEPT !.pc = "done", !.sock = "closed", !.reply = r.kind,
                   !.result = IF r.kind = "result" THEN r.result
                              ELSE [success |-> TRUE, error |-> ""]]

\* Lines 162-166: a datagram arrives on the ephemeral socket in time.
\* response.get('result', {'success': True}); bytes json.loads rejects raise
\* inside the try block.
ReplyResult(f, r) ==
  IF r.kind = "undecodable"
    THEN [f EXCEPT !.pc = "done", !.reply = r.kind,
                   !.result = Failure("JSONDecodeError")]
    ELSE [f EXCEPT !.pc = "done", !.sock = "closed", !.reply = r.kind,
                   !.result = IF r.kind = "result" THEN r.result
                              ELSE [success |-> TRUE, error |-> ""]]

send_command_reply(t) ==
  /\ th[t].pc = "recv"
  /\ now <= th[t].deadline
  /\ \E r \in Replies : th' = Frame(t, ReplyResult(th[t], r))
  /\ UNCHANGED <<now, regvars, lifevars, listenvars, ncalls, ndatagrams>>
  /\ UNCHANGED wvars

\* Line 162 raises socket.timeout once the 5 s have passed without a
\* datagram; lines 168-170 return str(e).
TimeoutResult(f) == [f EXCEPT !.pc = "done", !.result = Failure("timed out")]

send_command_timeout(t) ==
  /\ th[t].pc = "recv"
  /\ now >= th[t].deadline
  /\ th' = Frame(t, TimeoutResult(th[t]))
  /\ UNCHANGED <<now, regvars, lifevars, listenvars, ncalls, ndatagrams>>
  /\ UNCHANGED wvars

(* ----------------------- get_discovered_drones ------------------------ *)
\* Lines 175-176.
get_discovered_drones_call(t) ==
  /\ CanCall(t)
  /\ ncalls' = ncalls + 1
  /\ th' = Frame(t, [Idle EXCEPT !.op = "get_discovered_drones",
                                 !.pc = "iter", !.current_time = now,
                                 !.at_call = last_announce])
  /\ UNCHANGED <<now, regvars, lifevars, listenvars, ndatagrams>>
  /\ UNCHANGED wvars

\* for ... in self.discovered_drones.items(): the iterator records the size
\* of the dict when it is created.
NewIterator(f, next_pc) ==
  [f EXCEPT !.pc = next_pc, !.it_size = Len(dict_order), !.it_pos = 0]

get_discovered_drones_iter(t) ==
  /\ th[t].pc = "iter"
  /\ th' = Frame(t, NewIterator(th[t], "scan"))
  /\ UNCHANGED <<now, regvars, lifevars, listenvars, ncalls, ndatagrams>>
  /\ UNCHANGED wvars

\* Line 179.
IsExpired(current_time, info) == current_time - info.last_seen > TTL

\* One pass of the loop of lines 178-180.  The dict iterator raises
\* RuntimeError when the size of the dict differs from the recorded one.
ScanStep(f) ==
  IF Len(dict_order) # f.it_size
    THEN [f EXCEPT !.pc = "raised", !.exc = "RuntimeError"]
  ELSE IF f.it_pos >= Len(dict_order)
    THEN [f EXCEPT !.pc = "delete"]
  ELSE LET drone_id == dict_order[f.it_pos + 1]
           info == discovered_drones[drone_id]
       IN [f EXCEPT !.it_pos = @ + 1,
                    !.expired = IF IsExpired(f.current_time, info)
                                  THEN Append(@, drone_id) ELSE @]

get_discovered_drones_scan(t) ==
  /\ th[t].pc = "scan"
  /\ th' = Frame(t, ScanStep(th[t]))
  /\ UNCHANGED <<now, regvars, lifevars, listenvars, ncalls, ndatagrams>>
  /\ UNCHANGED wvars

\* An iterator of another thread keeps its place among the remaining entries
\* when the entry at index j is deleted.
AfterDelete(f, j) ==
  IF f.pc \in {"scan", "status_scan"} /\ f.it_pos >= j
    THEN [f EXCEPT !.it_pos = @ - 1] ELSE f

\* Mutant of DictCopy: return self.discovered_drones.
DictSelf(d) == [obj |-> "registry", items |-> d]

\* Line 186: dict.copy() makes a new mapping object with the same entries.
DictCopy(d) == [obj |-> "copy", items |-> d]

\* One pass of the loop of lines 182-184: del raises KeyError when the key
\* is no longer there.
get_discovered_drones_delete(t) ==
  /\ th[t].pc = "delete"
  /\ th[t].expired # <<>>
  /\ LET drone_id == Head(th[t].expired)
     IN IF drone_id \in DOMAIN discovered_drones
          THEN /\ discovered_drones' =
                    [d \in DOMAIN discovered_drones \ {drone_id} |->
                       discovered_drones[d]]
               /\ dict_order' = DictRemove(dict_order, drone_id)
               /\ last_announce' = last_announce
               /\ th' = [u \in Threads |->
                           IF u = t THEN [th[t] EXCEPT !.expired = Tail(@)]
                           ELSE AfterDelete(th[u],
                                            IndexOf(dict_order, drone_id))]
          ELSE /\ th' = Frame(t, [th[t] EXCEPT !.pc = "raised",
                                               !.exc = "KeyError"])
               /\ UNCHANGED regvars
  /\ UNCHANGED <<now, lifevars, listenvars, ncalls, ndatagrams>>
  /\ UNCHANGED wvars

\* Line 186: return self.discovered_drones.copy()
get_discovered_drones_copy(t) ==
  /\ th[t].pc = "delete"
  /\ th[t].expired = <<>>
  /\ th' = Frame(t, [th[t] EXCEPT !.pc = "done",
                                  !.held = DictCopy(discovered_drones).obj,
                                  !.snapshot = DictCopy(discovered_drones).items])
  /\ UNCHANGED <<now, regvars, lifevars, listenvars, ncalls, ndatagrams>>
  /\ UNCHANGED wvars

\* The mapping the caller of get_discovered_drones holds from line 186 on,
\* until it drops it.  Its records are the objects the registry held at line
\* 186; line 98 binds a new object and no statement writes into a record.
Returned(t) ==
  IF th[t].held = "registry" THEN discovered_drones ELSE th[t].snapshot

\* A record made by a caller.
CallerRecord(d) ==
  [id |-> d, name |-> "caller", address |-> UiAddr[1], port |-> DefaultPort,
   status |-> "unknown", last_seen |-> 0]

\* del m[d] when d is a key of m, m[d] = CallerRecord(d) otherwise.
DictEdit(m, d) ==
  IF d \in DOMAIN m THEN [x \in DOMAIN m \ {d} |-> m[x]]
  ELSE [x \in DOMAIN m \cup {d} |-> IF x = d THEN CallerRecord(d) ELSE m[x]]

\* The caller removes an entry from the mapping line 186 returned, or adds
\* one; the write goes to the object the caller holds.
caller_edit(t, d) ==
  /\ th[t].op = "get_discovered_drones"
  /\ th[t].pc = "done"
  /\ ~th[t].edited
  /\ IF th[t].held = "registry"
       THEN /\ discovered_drones' = DictEdit(discovered_drones, d)
            /\ dict_order' = IF d \in DOMAIN discovered_drones
                                THEN DictRemove(dict_order, d)
                                ELSE DictStore(dict_order, d)
            /\ th' = Frame(t, [th[t] EXCEPT !.edited = TRUE])
       ELSE /\ th' = Frame(t, [th[t] EXCEPT !.edited = TRUE,
                                            !.snapshot = DictEdit(@, d)])
            /\ UNCHANGED <<discovered_drones, dict_order>>
  /\ UNCHANGED <<now, last_announce, lifevars, listenvars, ncalls, ndatagrams>>
  /\ UNCHANGED wvars

(* ------------------------- get_system_status -------------------------- *)
\* Line 262.
get_system_status_call(t) ==
  /\ CanCall(t)
  /\ ncalls' = ncalls + 1
  /\ th' = Frame(t, [Idle EXCEPT !.op = "get_system_status",
                                 !.pc = "status_iter",
                                 !.active_drones = Len(dict_order)])
  /\ UNCHANGED <<now, regvars, lifevars, listenvars, ndatagrams>>
  /\ UNCHANGED wvars

\* Line 263: the list comprehension iterates self.discovered_drones.values().
get_system_status_iter(t) ==
  /\ th[t].pc = "status_iter"
  /\ th' = Frame(t, NewIterator(th[t], "status_scan"))
  /\ UNCHANGED <<now, regvars, lifevars, listenvars, ncalls, ndatagrams>>
  /\ UNCHANGED wvars

\* One pass of the comprehension of line 263; lines 265-271 when it ends.
StatusStep(f) ==
  IF Len(dict_order) # f.it_size
    THEN [f EXCEPT !.pc = "raised", !.exc = "RuntimeError"]
  ELSE IF f.it_pos >= Len(dict_order)
    THEN [f EXCEPT !.pc = "done", !.server_running = running]
  ELSE LET d == discovered_drones[dict_order[f.it_pos + 1]]
       IN [f EXCEPT !.it_pos = @ + 1,
                    !.connected_drones =
                       IF d.status = "connected" THEN @ + 1 ELSE @]

get_system_status_scan(t) ==
  /\ th[t].pc = "status_scan"
  /\ th' = Frame(t, StatusStep(th[t]))
  /\ UNCHANGED <<now, regvars, lifevars, listenvars, ncalls, ndatagrams>>
  /\ UNCHANGED wvars

\* The call of a request thread returns to (or raises into) its caller.
facade_return(t) ==
  /\ t \in ReqThreads
  /\ th[t].pc \in {"done", "raised"}
  /\ th' = Frame(t, Idle)
  /\ UNCHANGED <<now, regvars, lifevars, listenvars, ncalls, ndatagrams>>
  /\ UNCHANGED wvars

(* ------------------------------- codec -------------------------------- *)
\* Python values of the types a params mapping holds, tagged with their
\* type.  A float is given by its repr.
PyStr(x) == [t |-> "str", v |-> x]
PyInt(x) == [t |-> "int", v |-> x]
PyFloat(x) == [t |-> "float", v |-> x]
PyBool(x) == [t |-> "bool", v |-> x]
PyNull == [t |-> "NoneType", v |-> "None"]

\* The decimal text of the integers and floats in use.
IntText == [n \in {0, 10, 15} |-> IF n = 0 THEN "0" ELSE IF n = 10 THEN "10"
                                                       ELSE "15"]
FloatTexts == {"10.0", "0.5", "-0.0"}

PrimitiveValues ==
  { PyStr("10"), PyStr("true"), PyStr("north"), PyInt(0), PyInt(10),
    PyInt(15), PyFloat("10.0"), PyFloat("0.5"), PyFloat("-0.0"),
    PyFloat("inf"), PyFloat("nan"), PyBool(TRUE), PyBool(FALSE), PyNull }

\* params mappings: empty, one key, two keys.
ParamsValues ==
  {EmptyParams} \cup { [altitude |-> v] : v \in PrimitiveValues }
    \cup { [altitude |-> PyFloat("10.0"), mode |-> v] : v \in PrimitiveValues }

\* The command messages of lines 146-152.
CodecMessages ==
  { [type |-> PyStr("command"), command |-> PyStr(c),
     target_drone |-> PyStr("drone-1"), params |-> p,
     timestamp |-> PyStr("2024-01-01T00:00:00")] :
       c \in {"arm", "takeoff"}, p \in ParamsValues }

\* Mutant of EncodePrimitive: a bool is written as its str().
EncodePrimitiveStrBool(x) ==
  CASE x.t = "str" -> [tok |-> "string", text |-> x.v]
    [] x.t = "int" -> [tok |-> "number", text |-> IntText[x.v]]
    [] x.t = "float" ->
         IF x.v = "nan" THEN [tok |-> "literal", text |-> "NaN"]
         ELSE IF x.v = "inf" THEN [tok |-> "literal", text |-> "Infinity"]
         ELSE [tok |-> "number", text |-> x.v]
    [] x.t = "bool" ->
         [tok |-> "string", text |-> IF x.v THEN "True" ELSE "False"]
    [] x.t = "NoneType" -> [tok |-> "literal", text |-> "null"]

\* json.dumps of a primitive value: the JSON token it writes.
EncodePrimitive(x) ==
  CASE x.t = "str" -> [tok |-> "string", text |-> x.v]
    [] x.t = "int" -> [tok |-> "number", text |-> IntText[x.v]]
    [] x.t = "float" ->
         IF x.v = "nan" THEN [tok |-> "literal", text |-> "NaN"]
         ELSE IF x.v = "inf" THEN [tok |-> "literal", text |-> "Infinity"]
         ELSE [tok |-> "number", text |-> x.v]
    [] x.t = "bool" ->
         [tok |-> "literal", text |-> IF x.v THEN "true" ELSE "false"]
    [] x.t = "NoneType" -> [tok |-> "literal", text |-> "null"]

\* json.loads of a token: a number with a fraction part is a float, any
\* other number an int.
DecodePrimitive(k) ==
  CASE k.tok = "string" -> PyStr(k.text)
    [] k.tok = "number" ->
         IF k.text \in FloatTexts THEN PyFloat(k.text)
         ELSE PyInt(CHOOSE n \in DOMAIN IntText : IntText[n] = k.text)
    [] k.tok = "literal" ->
         CASE k.text = "true" -> PyBool(TRUE)
           [] k.text = "false" -> PyBool(FALSE)
           [] k.text = "null" -> PyNull
           [] k.text = "NaN" -> PyFloat("nan")
           [] k.text = "Infinity" -> PyFloat("inf")

\* json.dumps(command_msg).encode(), line 159: the members of the object in
\* the order of the dict, params as a nested object.
Encode(m) ==
  [f \in DOMAIN m |->
     IF f = "params"
       THEN [tok |-> "object",
             members |-> [k \in DOMAIN m.params |-> EncodePrimitive(m.params[k])]]
       ELSE EncodePrimitive(m[f])]

\* json.loads(data.decode()), line 81.
Decode(w) ==
  [f \in DOMAIN w |->
     IF w[f].tok = "object"
       THEN [k \in DOMAIN w[f].members |-> DecodePrimitive(w[f].members[k])]
       ELSE DecodePrimitive(w[f])]

\* == of Python on two values of the same type: a NaN equals nothing.
PyEq(x, y) == x = y /\ x # PyFloat("nan")

\* == of Python on two command messages (dicts compare key by key).
PyEqMessage(a, b) ==
  /\ DOMAIN a = DOMAIN b
  /\ \A f \in DOMAIN a \ {"params"} : PyEq(a[f], b[f])
  /\ DOMAIN a.params = DOMAIN b.params
  /\ \A k \in DOMAIN a.params : PyEq(a.params[k], b.params[k])

\* A command message is built (lines 146-152), ...
codec_build(t, m) ==
  /\ CanCall(t)
  /\ ncalls' = ncalls + 1
  /\ th' = Frame(t, [Idle EXCEPT !.op = "codec", !.pc = "encode", !.msg = m])
  /\ UNCHANGED <<now, regvars, lifevars, listenvars, ndatagrams>>
  /\ UNCHANGED wvars

\* ... encoded for sendto (line 159), ...
codec_encode(t) ==
  /\ th[t].pc = "encode"
  /\ th' = Frame(t, [th[t] EXCEPT !.pc = "decode", !.wire = Encode(th[t].msg)])
  /\ UNCHANGED <<now, regvars, lifevars, listenvars, ncalls, ndatagrams>>
  /\ UNCHANGED wvars

\* ... and decoded by the receiver of the datagram (line 81).
codec_decode(t) ==
  /\ th[t].pc = "decode"
  /\ th' = Frame(t, [th[t] EXCEPT !.pc = "done",
                                  !.decoded = Decode(th[t].wire)])
  /\ UNCHANGED <<now, regvars, lifevars, listenvars, ncalls, ndatagrams>>
  /\ UNCHANGED wvars

(* ------------------------ _discovery_listener ------------------------- *)
\* Line 78: while self.running (a new iteration begins, or the loop ends).
listener_check(k) ==
  /\ lpc[k] = "check"
  /\ lpc' = [lpc EXCEPT ![k] = IF running THEN "recv_call" ELSE "exited"]
  /\ inbound' = [inbound EXCEPT ![k] = NoDatagram]
  /\ responses' = [responses EXCEPT ![k] = <<>>]
  /\ UNCHANGED <<now, regvars, lifevars, lsock, th, ncalls, ndatagrams>>
  /\ UNCHANGED wvars

\* Line 80: recvfrom on the socket self.server_socket names at this moment.
\* No timeout is ever set on it, so the call blocks; on a closed socket it
\* raises OSError at once (lines 90-92: log, sleep 1 s, back to line 78).
listener_recv_call(k) ==
  /\ lpc[k] = "recv_call"
  /\ IF sock_state[server_socket] = "closed"
       THEN lpc' = [lpc EXCEPT ![k] = "check"] /\ lsock' = lsock
       ELSE /\ lpc' = [lpc EXCEPT ![k] = "recv"]
            /\ lsock' = [lsock EXCEPT ![k] = server_socket]
  /\ UNCHANGED <<now, regvars, lifevars, inbound, responses, th, ncalls,
                 ndatagrams>>
  /\ UNCHANGED wvars

MessageType(dg) == Get(dg.payload, "type", "")

\* Lines 94-111: the record replaces whatever the registry held.
handle_drone_announcement(message, addr) ==
  IF HasDroneId(message)
    THEN /\ discovered_drones' = Upsert(discovered_drones, message, addr, now)
         /\ dict_order' = DictStore(dict_order, message.drone_id)
         /\ last_announce' =
              [d \in DOMAIN last_announce \cup {message.drone_id} |->
                 IF d = message.drone_id
                   THEN [message |-> message, addr |-> addr, time |-> now]
                   ELSE last_announce[d]]
    ELSE UNCHANGED regvars

\* Lines 117-121: a known command name calls its handler, which calls
\* send_command_to_drone(drone_id, command, params) on the listener thread
\* (lines 222-258); any other name falls through without an answer.
RelayFrame(message) ==
  SendCommandEntry(Get(message, "target_drone", ""), message.command,
                   Get(message, "params", EmptyParams))

IsCommand(dg) == dg.kind = "json" /\ MessageType(dg) = "command"

IsAnnounce(dg) == dg.kind = "json" /\ MessageType(dg) = "drone_announce"

\* History: a get_discovered_drones call in progress notes the drones that
\* were announced after it read the clock.
NoteAnnounce(f, drone_id) ==
  IF f.op = "get_discovered_drones"
    THEN [f EXCEPT !.refreshed = @ \cup {drone_id}] ELSE f

IsRelayed(dg) ==
  IsCommand(dg) /\ Get(dg.payload, "command", "") \in command_handlers

\* Mutant of AfterReceive: an exception raised by the decoding or by a
\* handler is not caught and ends the thread.
AfterReceiveUncaught(dg) ==
  IF IsRelayed(dg) THEN "relay"
  ELSE IF dg.kind # "json" THEN "exited" ELSE "check"

\* Where the listener stands once lines 81-86 have dealt with a datagram:
\* inside a handler call, or back at line 78, be it through the end of the
\* try block or through except Exception (lines 90-92).
AfterReceive(dg) == IF IsRelayed(dg) THEN "relay" ELSE "check"

\* Lines 80-92: a datagram arrives on the socket the thread is blocked on.
\* Bytes that do not decode raise into lines 90-92.
listener_receive(k, dg) ==
  /\ lpc[k] = "recv"
  /\ sock_state[lsock[k]] # "unbound"
  /\ ndatagrams < MaxDatagrams
  /\ ndatagrams' = ndatagrams + 1
  /\ inbound' = [inbound EXCEPT ![k] = dg]
  /\ IF IsAnnounce(dg)
       THEN handle_drone_announcement(dg.payload, dg.addr)
       ELSE UNCHANGED regvars
  /\ th' = IF IsRelayed(dg) THEN Frame(k, RelayFrame(dg.payload))
           ELSE IF IsAnnounce(dg) /\ HasDroneId(dg.payload)
             THEN [t \in Threads |-> NoteAnnounce(th[t], dg.payload.drone_id)]
           ELSE th
  /\ lpc' = [lpc EXCEPT ![k] = AfterReceive(dg)]
  /\ UNCHANGED <<now, lifevars, lsock, responses, ncalls>>
  /\ UNCHANGED wvars

\* Lines 124-135: the handler returned; the answer goes out on
\* self.server_socket to the sender of the command.  sendto on a closed
\* socket raises, which is logged.
CommandResponse(k) ==
  [type |-> "command_response", drone_id |-> th[k].drone_id,
   command |-> th[k].command, result |-> th[k].result, timestamp |-> now,
   to |-> inbound[k].addr]

listener_respond(k) ==
  /\ lpc[k] = "relay"
  /\ th[k].pc = "done"
  /\ responses' = IF sock_state[server_socket] # "closed"
                    THEN [responses EXCEPT ![k] = Append(@, CommandResponse(k))]
                    ELSE responses
  /\ th' = Frame(k, Idle)
  /\ lpc' = [lpc EXCEPT ![k] = "check"]
  /\ UNCHANGED <<now, regvars, lifevars, lsock, inbound, ncalls, ndatagrams>>
  /\ UNCHANGED wvars

\* The KeyError of line 142 leaves the handler and is caught at line 90.
listener_relay_raised(k) ==
  /\ lpc[k] = "relay"
  /\ th[k].pc = "raised"
  /\ th' = Frame(k, Idle)
  /\ lpc' = [lpc EXCEPT ![k] = "check"]
  /\ UNCHANGED <<now, regvars, lifevars, lsock, inbound, responses, ncalls,
                 ndatagrams>>
  /\ UNCHANGED wvars

\* close() of the socket by stop_server while recvfrom is blocked on it:
\* whether the blocked call returns with an error depends on the platform
\* (on Linux it stays blocked until a datagram arrives).  Where it does, the
\* error is handled by lines 90-92.
listener_unblocked(k) ==
  /\ lpc[k] = "recv"
  /\ sock_state[lsock[k]] = "closed"
  /\ lpc' = [lpc EXCEPT ![k] = "check"]
  /\ UNCHANGED <<now, regvars, lifevars, lsock, inbound, responses, th,
                 ncalls, ndatagrams>>
  /\ UNCHANGED wvars

(* ----------------------- DroneWirelessManager ------------------------- *)
\* What requests.get(...) does: an answer with status 200, an answer with
\* another status, a connection error, or no answer within the timeout
\* (requests.exceptions.Timeout).  The last two are raised.
HttpOutcomes == {"200", "503", "exception", "timeout"}

Raises(o) == o \in {"exception", "timeout"}

DroneIp == Addr1[1]

ZeroGps == [lat |-> 0, lon |-> 0, alt |-> 0]
\* The body of the drone's /gps answer.
GpsFix == [lat |-> 8, lon |-> -13, alt |-> 50]

\* Lines 49-54 and 159-164 (connected_at is left out).
ConnectionInfo(drone_ip, time) ==
  [ip |-> drone_ip, status |-> "connected", last_ping |-> time]

\* Lines 55-61.
InitialStatus ==
  [status |-> "connected", battery |-> 100, gps |-> ZeroGps, armed |-> FALSE,
   mode |-> "STABILIZE"]

\* d[k] = v on a dict.
DictPut(d, k, v) == [x \in DOMAIN d \cup {k} |-> IF x = k THEN v ELSE d[x]]

\* What a handler call leaves in the history: the handler, its drone_id,
\* the HTTP status it answers with (0 for a WebSocket event), the exception
\* it met and, for ping_drone, what requests.get did.
Request(op, drone_id, o, code, error) ==
  [op |-> op, drone_id |-> drone_id, outcome |-> o, code |-> code,
   error |-> error, flip |-> ~request.flip]

\* Lines 36-66: POST /api/drone/connect.
connect_drone(drone_id, drone_ip, o) ==
  /\ IF drone_id = "" \/ drone_ip = ""
       THEN /\ request' = Request("connect_drone", drone_id, "", 400, "")
            /\ UNCHANGED <<connected_drones, connected_order, drone_status>>
       ELSE IF o = "200"
         THEN /\ connected_drones' =
                   DictPut(connected_drones, drone_id,
                           ConnectionInfo(drone_ip, now))
              /\ connected_order' = DictStore(connected_order, drone_id)
              /\ drone_status' = DictPut(drone_status, drone_id, InitialStatus)
              /\ request' = Request("connect_drone", drone_id, "", 200, "")
         ELSE /\ request' = Request("connect_drone", drone_id, "", 500, "")
              /\ UNCHANGED <<connected_drones, connected_order, drone_status>>
  /\ UNCHANGED <<now, monitor, ctlvars>>

\* Lines 150-181: the WebSocket event drone_connect.  The answer is emitted;
\* code is 0.
handle_drone_connect(drone_id, drone_ip, o) ==
  /\ IF o = "200"
       THEN /\ connected_drones' =
                 DictPut(connected_drones, drone_id,
                         ConnectionInfo(drone_ip, now))
            /\ connected_order' = DictStore(connected_order, drone_id)
       ELSE UNCHANGED <<connected_drones, connected_order>>
  /\ request' = Request("handle_drone_connect", drone_id, "", 0, "")
  /\ UNCHANGED <<now, drone_status, monitor, ctlvars>>

\* Lines 69-80: POST /api/drone/disconnect.
disconnect_drone(drone_id) ==
  /\ IF drone_id \in DOMAIN connected_drones
       THEN /\ connected_drones' =
                 [x \in DOMAIN connected_drones \ {drone_id} |->
                    connected_drones[x]]
            /\ connected_order' = DictRemove(connected_order, drone_id)
            /\ drone_status' =
                 IF drone_id \in DOMAIN drone_status
                   THEN [drone_status EXCEPT
                           ![drone_id].status = "disconnected"]
                   ELSE drone_status
            /\ request' = Request("disconnect_drone", drone_id, "", 200, "")
       ELSE /\ request' = Request("disconnect_drone", drone_id, "", 404, "")
            /\ UNCHANGED <<connected_drones, connected_order, drone_status>>
  /\ UNCHANGED <<now, monitor, ctlvars>>

\* Lines 99-115: GET /api/drone/ping/<drone_id>.  Line 114 runs inside the
\* except clause: a KeyError it raises leaves the handler.
ping_drone(drone_id, o) ==
  /\ IF drone_id \notin DOMAIN connected_drones
       THEN /\ request' = Request("ping_drone", drone_id, "", 404, "")
            /\ UNCHANGED <<connected_drones, drone_status>>
       ELSE IF o = "200"
         THEN /\ connected_drones' =
                   [connected_drones EXCEPT ![drone_id].last_ping = now]
              /\ request' = Request("ping_drone", drone_id, o, 200, "")
              /\ UNCHANGED drone_status
       ELSE IF ~Raises(o)
         THEN /\ request' = Request("ping_drone", drone_id, o, 500, "")
              /\ UNCHANGED <<connected_drones, drone_status>>
       ELSE IF drone_id \in DOMAIN drone_status
         THEN /\ drone_status' =
                   [drone_status EXCEPT ![drone_id].status = "disconnected"]
              /\ request' = Request("ping_drone", drone_id, o, 500, "")
              /\ UNCHANGED connected_drones
         ELSE /\ request' = Request("ping_drone", drone_id, o, 500,
                                    "KeyError: drone_status")
              /\ UNCHANGED <<connected_drones, drone_status>>
  /\ UNCHANGED <<now, connected_order, monitor, ctlvars>>

\* Lines 118-134: GET /api/drone/gps/<drone_id>.  Line 129 runs inside the
\* try block: its KeyError is answered with 500.
get_drone_gps(drone_id, o) ==
  /\ IF drone_id \notin DOMAIN connected_drones
       THEN /\ request' = Request("get_drone_gps", drone_id, "", 404, "")
            /\ UNCHANGED drone_status
       ELSE IF o # "200"
         THEN /\ request' = Request("get_drone_gps", drone_id, "", 500, "")
              /\ UNCHANGED drone_status
       ELSE IF drone_id \in DOMAIN drone_status
         THEN /\ drone_status' = [drone_status EXCEPT ![drone_id].gps = GpsFix]
              /\ request' = Request("get_drone_gps", drone_id, "", 200, "")
         ELSE /\ request' = Request("get_drone_gps", drone_id, "", 500,
                                    "KeyError: drone_status")
              /\ UNCHANGED drone_status
  /\ UNCHANGED <<now, connected_drones, connected_order, monitor, ctlvars>>

\* Lines 190-209, send_gps_update: the status table it leaves and the
\* exception line 208 caught and logged.
send_gps_update(drone_id, o) ==
  IF drone_id \notin DOMAIN connected_drones \/ o = "503"
    THEN [drone_status |-> drone_status, error |-> ""]
  ELSE IF Raises(o)
    THEN [drone_status |-> drone_status, error |-> o]
  ELSE IF drone_id \in DOMAIN drone_status
    THEN [drone_status |-> [drone_status EXCEPT ![drone_id].gps = GpsFix],
          error |-> ""]
  ELSE [drone_status |-> drone_status, error |-> "KeyError: drone_status"]

\* Lines 184-188: the WebSocket event request_gps_update.
handle_gps_request(drone_id, o) ==
  /\ drone_status' = send_gps_update(drone_id, o).drone_status
  /\ request' = Request("handle_gps_request", drone_id, "", 0,
                        send_gps_update(drone_id, o).error)
  /\ UNCHANGED <<now, connected_drones, connected_order, monitor, ctlvars>>

\* Line 216: a pass of the monitor loop starts with a copy of the keys.
monitor_loop_keys ==
  /\ monitor.pc = "while"
  /\ monitor' = [pc |-> "for", keys |-> connected_order, error |-> ""]
  /\ UNCHANGED <<now, connected_drones, connected_order, drone_status,
                 request, ctlvars>>

\* Lines 230-232: an exception ends the pass.
MonitorRaised(error) == [pc |-> "while", keys |-> <<>>, error |-> error]

\* Lines 218-227: one drone of the pass.
monitor_loop_visit(o) ==
  /\ monitor.pc = "for"
  /\ monitor.keys # <<>>
  /\ LET drone_id == Head(monitor.keys)
     IN IF drone_id \notin DOMAIN connected_drones
          THEN /\ monitor' = MonitorRaised("KeyError: connected_drones")
               /\ UNCHANGED drone_status
        ELSE IF now - connected_drones[drone_id].last_ping > MonitorTimeout
          THEN IF drone_id \in DOMAIN drone_status
                 THEN /\ drone_status' =
                           [drone_status EXCEPT
                              ![drone_id].status = "disconnected"]
                      /\ monitor' = [monitor EXCEPT !.keys = Tail(@)]
                 ELSE /\ monitor' = MonitorRaised("KeyError: drone_status")
                      /\ UNCHANGED drone_status
        ELSE /\ drone_status' = send_gps_update(drone_id, o).drone_status
             /\ monitor' = [monitor EXCEPT !.keys = Tail(@)]
  /\ UNCHANGED <<now, connected_drones, connected_order, request, ctlvars>>

\* Line 229: the pass is over.
monitor_loop_sleep ==
  /\ monitor.pc = "for"
  /\ monitor.keys = <<>>
  /\ monitor' = [monitor EXCEPT !.pc = "while"]
  /\ UNCHANGED <<now, connected_drones, connected_order, drone_status,
                 request, ctlvars>>

(* --------------------------- specification ---------------------------- *)
ListenerLoop == \E k \in Listeners : listener_check(k) \/ listener_recv_call(k)

\* Request threads that make the same calls are interchangeable: the second
\* one is used only while the first is inside a call.
FirstIdle(t) == \A u \in ReqThreads : u < t => th[u].op # "idle"

ListSteps ==
  \/ \E t \in ReqThreads : get_discovered_drones_iter(t)
  \/ \E t \in ReqThreads : get_discovered_drones_scan(t)
  \/ \E t \in ReqThreads : get_discovered_drones_delete(t)
  \/ \E t \in ReqThreads : get_discovered_drones_copy(t)

StatusSteps ==
  \/ \E t \in ReqThreads : get_system_status_iter(t)
  \/ \E t \in ReqThreads : get_system_status_scan(t)

SendCommandCall(t) ==
  \E d \in DroneIds, cp \in CommandCalls : send_command_call(t, d, cp[1], cp[2])

SendSteps ==
  \/ \E t \in Threads : send_command_lookup(t)
  \/ \E t \in Threads : send_command_send(t)
  \/ \E t \in Threads : send_command_reply(t)
  \/ \E t \in Threads : send_command_timeout(t)

RelayAnswered ==
  \/ \E k \in Listeners, dg \in CommandDatagrams : listener_receive(k, dg)
  \/ \E k \in Listeners : listener_respond(k)

Relay == RelayAnswered \/ \E k \in Listeners : listener_relay_raised(k)

Return == \E t \in ReqThreads : facade_return(t)

Announces ==
  \E k \in Listeners, dg \in AnnounceDatagrams : listener_receive(k, dg)

\* Announces that differ in drone_id, in source address and in payload.
RegistryDatagrams ==
  { Datagram(Announce1, Addr1), Datagram(Announce1Status, Addr2),
    Datagram(Announce2, Addr2) }

Dropped == \E k \in Listeners, dg \in DroppedDatagrams : listener_receive(k, dg)

Unblocked == \E k \in Listeners : listener_unblocked(k)

\* Every operation of the controller, interleaved.
Next ==
  \/ Tick
  \/ start_server
  \/ stop_server
  \/ ListenerLoop
  \/ Announces
  \/ Dropped
  \/ Relay
  \/ Unblocked
  \/ \E t \in ReqThreads : FirstIdle(t) /\ get_discovered_drones_call(t)
  \/ ListSteps
  \/ \E t \in ReqThreads : FirstIdle(t) /\ get_system_status_call(t)
  \/ StatusSteps
  \/ \E t \in ReqThreads : FirstIdle(t) /\ SendCommandCall(t)
  \/ \E t \in ReqThreads, d \in DroneIds, wa \in WrapperCalls :
       FirstIdle(t) /\ wrapper_call(t, wa[1], d, wa[2])
  \/ SendSteps
  \/ Return

Spec == Init /\ [][Next]_vars

\* The registry under announces and the calls that loop over it, with the
\* controller started once.
NextRegistry ==
  \/ Tick
  \/ (nsockets = 0 /\ start_server)
  \/ ListenerLoop
  \/ \E k \in Listeners, dg \in RegistryDatagrams : listener_receive(k, dg)
  \/ \E t \in ReqThreads : FirstIdle(t) /\ get_discovered_drones_call(t)
  \/ ListSteps
  \/ Return

SpecRegistry == Init /\ [][NextRegistry]_vars

\* Commands: announces that differ in the port field only or in another field
\* only, commands sent by one request thread and relayed by the listener,
\* evictions by the other request thread.
CommandsDatagrams ==
  { Datagram(Announce1, Addr1), Datagram(Announce1Port, Addr1),
    Datagram(Announce1Status, Addr1) }

NextCommand ==
  \/ Tick
  \/ (nsockets = 0 /\ start_server)
  \/ ListenerLoop
  \/ \E k \in Listeners, dg \in CommandsDatagrams : listener_receive(k, dg)
  \/ Relay
  \/ SendCommandCall(11)
  \/ SendSteps
  \/ get_discovered_drones_call(12)
  \/ ListSteps
  \/ Return

SpecCommand == Init /\ [][NextCommand]_vars

\* Commands without evictions, for what happens after the lookup.  The clock
\* advances and a thread whose recvfrom has timed out goes on; whether a
\* datagram arrives is up to the network.
NextTimeout ==
  \/ Tick
  \/ (nsockets = 0 /\ start_server)
  \/ ListenerLoop
  \/ \E k \in Listeners, dg \in CommandsDatagrams : listener_receive(k, dg)
  \/ RelayAnswered
  \/ SendCommandCall(11)
  \/ SendSteps
  \/ Return

LiveTimeout ==
  /\ Init /\ [][NextTimeout]_vars
  /\ WF_vars(Tick)
  /\ \A t \in Threads : WF_vars(send_command_timeout(t))

\* The wrappers, called by one request thread for a drone that is in the
\* registry or not.
NextWrappers ==
  \/ Tick
  \/ (nsockets = 0 /\ start_server)
  \/ ListenerLoop
  \/ \E k \in Listeners : listener_receive(k, Datagram(Announce1, Addr1))
  \/ \E d \in DroneIds, wa \in WrapperCalls : wrapper_call(11, wa[1], d, wa[2])
  \/ SendSteps
  \/ Return

SpecWrappers == Init /\ [][NextWrappers]_vars

\* get_system_status on one request thread, with announces and with the
\* evictions of get_discovered_drones calls on the other.
NextStatus ==
  \/ Tick
  \/ (nsockets = 0 /\ start_server)
  \/ stop_server
  \/ ListenerLoop
  \/ \E k \in Listeners, dg \in RegistryDatagrams : listener_receive(k, dg)
  \/ get_system_status_call(11)
  \/ StatusSteps
  \/ get_discovered_drones_call(12)
  \/ ListSteps
  \/ Return

SpecStatus == Init /\ [][NextStatus]_vars

\* The codec applied to command messages.
NextCodec ==
  \/ \E m \in CodecMessages : codec_build(11, m)
  \/ codec_encode(11)
  \/ codec_decode(11)
  \/ Return

SpecCodec == Init /\ [][NextCodec]_vars

\* Relayed takeoff and goto_location commands with and without an altitude.
DefaultsPayloads ==
  { [type |-> "command", command |-> "takeoff", target_drone |-> "drone-1"],
    [type |-> "command", command |-> "takeoff", target_drone |-> "drone-1",
     params |-> [altitude |-> 15]],
    [type |-> "command", command |-> "goto_location",
     target_drone |-> "drone-1",
     params |-> [latitude |-> 8, longitude |-> 13]] }

\* Commands through the wrappers and through the relay handlers.
NextDefaults ==
  \/ Tick
  \/ (nsockets = 0 /\ start_server)
  \/ ListenerLoop
  \/ \E k \in Listeners : listener_receive(k, Datagram(Announce1, Addr1))
  \/ \E k \in Listeners, p \in DefaultsPayloads :
       listener_receive(k, Datagram(p, UiAddr))
  \/ \E k \in Listeners : listener_respond(k)
  \/ \E d \in DroneIds, wa \in WrapperCalls : wrapper_call(11, wa[1], d, wa[2])
  \/ SendSteps
  \/ Return

SpecDefaults == Init /\ [][NextDefaults]_vars

\* The operations that only read the registry, with announces in between:
\* commands on one request thread, get_system_status on the other, stop.
ReadersDatagrams == { Datagram(Announce1, Addr1), Datagram(Announce2, Addr2) }

NextReaders ==
  \/ Tick
  \/ (nsockets = 0 /\ start_server)
  \/ stop_server
  \/ ListenerLoop
  \/ \E k \in Listeners, dg \in ReadersDatagrams : listener_receive(k, dg)
  \/ SendCommandCall(11)
  \/ SendSteps
  \/ get_system_status_call(12)
  \/ StatusSteps
  \/ Return

SpecReaders == Init /\ [][NextReaders]_vars

\* A caller that keeps and edits the mapping get_discovered_drones returned
\* while announces arrive and the other caller evicts.
NextSnapshot ==
  \/ Tick
  \/ (nsockets = 0 /\ start_server)
  \/ ListenerLoop
  \/ \E k \in Listeners, dg \in ReadersDatagrams : listener_receive(k, dg)
  \/ \E t \in ReqThreads : FirstIdle(t) /\ get_discovered_drones_call(t)
  \/ ListSteps
  \/ \E d \in DroneIds : caller_edit(11, d)
  \/ Return

SpecSnapshot == Init /\ [][NextSnapshot]_vars

\* The wireless manager: its handlers and its monitor thread.
Handlers ==
  \/ \E d \in DroneIds \cup {""}, o \in HttpOutcomes : connect_drone(d, DroneIp, o)
  \/ \E d \in DroneIds, o \in HttpOutcomes : handle_drone_connect(d, DroneIp, o)
  \/ \E d \in DroneIds : disconnect_drone(d)
  \/ \E d \in DroneIds, o \in HttpOutcomes : ping_drone(d, o)
  \/ \E d \in DroneIds, o \in HttpOutcomes : get_drone_gps(d, o)
  \/ \E d \in DroneIds, o \in HttpOutcomes : handle_gps_request(d, o)

MonitorVisit == \E o \in HttpOutcomes : monitor_loop_visit(o)

NextWireless ==
  \/ Tick
  \/ Handlers
  \/ monitor_loop_keys
  \/ MonitorVisit
  \/ monitor_loop_sleep

SpecWireless == Init /\ [][NextWireless]_vars

\* The monitor thread with connects, disconnects and pings.
NextMonitor ==
  \/ Tick
  \/ \E d \in DroneIds, o \in HttpOutcomes : connect_drone(d, DroneIp, o)
  \/ \E d \in DroneIds, o \in HttpOutcomes : handle_drone_connect(d, DroneIp, o)
  \/ \E d \in DroneIds : disconnect_drone(d)
  \/ \E d \in DroneIds, o \in HttpOutcomes : ping_drone(d, o)
  \/ monitor_loop_keys
  \/ MonitorVisit
  \/ monitor_loop_sleep

\* The monitor thread is a running thread: it takes its next step.
LiveWireless ==
  /\ Init /\ [][NextMonitor]_vars
  /\ WF_vars(monitor_loop_keys)
  /\ WF_vars(MonitorVisit)
  /\ WF_vars(monitor_loop_sleep)

\* Start, stop and the listener loop.
NextLifecycle ==
  \/ start_server
  \/ stop_server
  \/ ListenerLoop
  \/ \E k \in Listeners, dg \in RegistryDatagrams : listener_receive(k, dg)
  \/ Dropped
  \/ Unblocked

SpecLifecycle == Init /\ [][NextLifecycle]_vars

\* The listener thread is scheduled fairly; a datagram need not arrive, and
\* close() need not wake a blocked recvfrom.
LiveLifecycle ==
  /\ SpecLifecycle
  /\ \A k \in Listeners : WF_vars(listener_check(k) \/ listener_recv_call(k))

(* ------------------------------ claims -------------------------------- *)
IsListDone(t) == th[t].op = "get_discovered_drones" /\ th[t].pc = "done"

\* C1: a get_discovered_drones call returns every drone whose most recent
\* announce was processed at most TTL seconds before the call read the clock,
\* and returns no drone whose most recent announce is more than TTL seconds
\* older than that; such a drone is also gone from the registry when the call
\* ends, and no record of the snapshot is older than TTL.
C1_SnapshotWithinTTL ==
  \A t \in ReqThreads :
    IsListDone(t) =>
      /\ \A d \in DOMAIN th[t].at_call :
           LET age == th[t].current_time - th[t].at_call[d].time
           IN /\ age <= TTL => d \in DOMAIN th[t].snapshot
              /\ (age > TTL /\ d \notin th[t].refreshed) =>
                   /\ d \notin DOMAIN th[t].snapshot
                   /\ d \notin DOMAIN discovered_drones
      /\ \A d \in DOMAIN th[t].snapshot :
           th[t].current_time - th[t].snapshot[d].last_seen <= TTL

\* C4: registry operations are atomic with respect to each other: what a
\* get_discovered_drones call has decided to delete is, until it deletes it,
\* still in the registry and still expired (no announce refreshed it in
\* between, and no other call deleted it first).
C4_EvictionIsAtomic ==
  \A t \in ReqThreads :
    (th[t].op = "get_discovered_drones" /\ th[t].pc = "delete") =>
      \A i \in 1..Len(th[t].expired) :
        /\ th[t].expired[i] \in DOMAIN discovered_drones
        /\ IsExpired(th[t].current_time, discovered_drones[th[t].expired[i]])

\* C5: no facade call of a request thread ends by raising into its caller.
C5_NoExceptionToCaller == \A t \in ReqThreads : th[t].pc # "raised"

\* C6: last write wins: the registry holds one record per drone_id, under a
\* key equal to its id field, and every field of it is the one the most
\* recently processed announce for that drone_id gives.
C6_LastWriteWins ==
  /\ Len(dict_order) = Cardinality(DOMAIN discovered_drones)
  /\ \A d \in DOMAIN discovered_drones :
       /\ \E i \in 1..Len(dict_order) : dict_order[i] = d
       /\ discovered_drones[d].id = d
       /\ d \in DOMAIN last_announce
       /\ discovered_drones[d] =
            AnnounceRecord(last_announce[d].message, last_announce[d].addr,
                           last_announce[d].time)

\* A snapshot taken earlier shows drone-1 at one address, the registry now
\* holds it at another: two announces with different addresses were processed.
C6_Witness ==
  \E t \in ReqThreads :
    /\ IsListDone(t)
    /\ "drone-1" \in DOMAIN th[t].snapshot
    /\ "drone-1" \in DOMAIN discovered_drones
    /\ th[t].snapshot["drone-1"].address # discovered_drones["drone-1"].address

IsSend(t) == th[t].op = "send_command_to_drone"

\* C2 (as amended): a send_command_to_drone call for a drone_id that is not
\* in the registry ends at once with {success: False, error: 'Drone not
\* found'}, having created no socket and sent no datagram.
C2_AbsentDroneNotFound ==
  [][\A t \in Threads :
       (th[t].op = "idle" /\ th'[t].op = "send_command_to_drone"
          /\ th'[t].drone_id \notin DOMAIN discovered_drones) =>
         /\ th'[t].pc = "done"
         /\ th'[t].result = Failure("Drone not found")
         /\ th'[t].sock = "none"
         /\ th'[t].sent = NoMsg]_vars

C2_Witness ==
  \E t \in Threads :
    /\ IsSend(t) /\ th[t].pc = "done"
    /\ th[t].drone_id \notin DOMAIN discovered_drones
    /\ th[t].result = Failure("Drone not found")
    /\ th[t].sock = "none" /\ th[t].sent = NoMsg

\* C2 as stated: the error text is "drone not found".
C2_AbsentDroneNotFoundLowerCase ==
  [][\A t \in Threads :
       (th[t].op = "idle" /\ th'[t].op = "send_command_to_drone"
          /\ th'[t].drone_id \notin DOMAIN discovered_drones) =>
         /\ th'[t].pc = "done"
         /\ th'[t].result = Failure("drone not found")
         /\ th'[t].sock = "none"
         /\ th'[t].sent = NoMsg]_vars

HasTimedOut(t) ==
  IsSend(t) /\ th[t].pc = "done" /\ th[t].sent # NoMsg /\ th[t].reply = "none"

\* C3: a send_command_to_drone call that has sent its command and gets no
\* reply ends: it leaves recvfrom only by returning, never by raising, and
\* what it returns without a reply is {success: False, error: 'timed out'},
\* CommandTimeout seconds or more after the command was sent.
C3_NoReplyTimesOut ==
  /\ \A t \in Threads : (th[t].pc = "recv") ~> (th[t].pc = "done")
  /\ [][\A t \in Threads :
          th[t].pc = "recv" => th'[t].pc \in {"recv", "done"}]_vars
  /\ [](\A t \in Threads :
          HasTimedOut(t) =>
            /\ th[t].result = Failure("timed out")
            /\ now - th[t].sent.timestamp >= CommandTimeout)

C3_Witness ==
  \E t \in Threads : HasTimedOut(t) /\ th[t].result = Failure("timed out")

\* The destination a send_command_to_drone call would use now.
Destination(d) == <<discovered_drones[d].address, discovered_drones[d].port>>

\* C7 (as amended): the destination of a command is the source host of the
\* announce the registry record came from, with the port of that announce's
\* payload (14550 when it gives none).
C7_DestinationFromAnnounce ==
  \A t \in Threads :
    th[t].sent # NoMsg =>
      th[t].dest =
        <<th[t].via.addr[1], Get(th[t].via.message, "port", DefaultPort)>>

\* A command is in flight and the drone has since announced itself from the
\* same source with another payload; the destination is the same.
C7_Witness ==
  \E t \in Threads :
    /\ th[t].sent # NoMsg
    /\ th[t].drone_id \in DOMAIN discovered_drones
    /\ last_announce[th[t].drone_id].addr = th[t].via.addr
    /\ last_announce[th[t].drone_id].message # th[t].via.message
    /\ Destination(th[t].drone_id) = th[t].dest

\* C7 as stated: two announces from the same source address yield the same
\* command destination, whatever their payloads.
C7_SameSourceSameDestination ==
  \A t \in Threads :
    (/\ th[t].sent # NoMsg
     /\ th[t].drone_id \in DOMAIN discovered_drones
     /\ last_announce[th[t].drone_id].addr = th[t].via.addr) =>
      Destination(th[t].drone_id) = th[t].dest

\* C8: a command name that is none of the seven handlers is answered with
\* {success: False, error: 'unknown command'}: a call for a registered drone
\* sends nothing and returns it, and the listener answers a relayed one
\* with it.
C8_UnknownCommandRejected ==
  /\ \A t \in Threads :
       (IsSend(t) /\ th[t].command \notin command_handlers) =>
         /\ th[t].sent = NoMsg
         /\ (th[t].pc = "done" /\ th[t].drone_info.id # "") =>
              th[t].result = Failure("unknown command")
  /\ \A k \in Listeners :
       (/\ lpc[k] = "check"
        /\ IsCommand(inbound[k])
        /\ inbound[k].payload.command \notin command_handlers) =>
         /\ Len(responses[k]) = 1
         /\ responses[k][1].result = Failure("unknown command")

\* C9: start_server returns True only with the socket bound, the listener
\* thread started and running set; when bind fails it returns False, running
\* is what it was and no listener thread is started.
C9_StartResult ==
  [][nsockets' # nsockets =>
       /\ start_result' =>
            /\ sock_state'[server_socket'] = "bound"
            /\ running'
            /\ lpc[server_socket'] = "unborn"
            /\ lpc'[server_socket'] = "check"
       /\ sock_state'[server_socket'] = "unbound" =>
            /\ ~start_result'
            /\ running' = running
            /\ lpc' = lpc]_vars

\* start_server has failed to bind on a stopped controller.
C9_Witness ==
  /\ nsockets = 1
  /\ sock_state[1] = "unbound"
  /\ ~start_result
  /\ ~running
  /\ lpc[1] = "unborn"

\* C10: once stop_server has run, every listener loop that is still alive
\* eventually exits.
C10_ListenerExitsAfterStop ==
  \A k \in Listeners :
    (lpc[k] \notin {"unborn", "exited"} /\ ~running) ~> (lpc[k] = "exited")

\* C11: in every state of the controller, stop_server leaves running False
\* and the socket self.server_socket names closed, and a second stop_server
\* right after it leaves the state the first one left.
C11_StopIdempotent ==
  LET once == StopEffect(running, sock_state, server_socket)
      twice == StopEffect(once.running, once.sock_state, server_socket)
  IN /\ ~once.running
     /\ server_socket # 0 => once.sock_state[server_socket] = "closed"
     /\ twice = once

\* stop_server has run on a started controller.
C11_Witness ==
  /\ ~running
  /\ server_socket # 0
  /\ sock_state[server_socket] = "closed"
  /\ lpc[server_socket] # "unborn"
  /\ StopEffect(running, sock_state, server_socket) =
       [running |-> running, sock_state |-> sock_state]

\* C12: a listener loop ends only at line 78 with running False; a datagram
\* it receives, whatever it holds, and an error of recvfrom leave running as
\* it is and take the loop back to line 78 (or into a handler), from where it
\* goes on to the next recvfrom while running is True.
C12_ListenerSurvivesDatagrams ==
  [][\A k \in Listeners :
       /\ (lpc[k] # "exited" /\ lpc'[k] = "exited") =>
            (lpc[k] = "check" /\ ~running)
       /\ (lpc[k] \in {"recv", "recv_call"} /\ lpc'[k] # lpc[k]) =>
            (running' = running /\ lpc'[k] \in {"check", "relay", "recv"})
       /\ (lpc[k] = "check" /\ lpc'[k] # "check" /\ running) =>
            lpc'[k] = "recv_call"]_vars

\* The listener has received bytes that do not decode and is back at line 78
\* of a running controller.
C12_Witness ==
  \E k \in Listeners :
    /\ inbound[k].kind \in {"undecodable", "not_object", "bad_field"}
    /\ lpc[k] = "check"
    /\ running

\* C13: when the listener is through with a datagram of type command, it has
\* sent exactly one command_response, to the address the command came from,
\* with the command's target drone and command name.
C13_CommandAnswered ==
  \A k \in Listeners :
    (lpc[k] = "check" /\ IsCommand(inbound[k])) =>
      /\ Len(responses[k]) = 1
      /\ responses[k][1].type = "command_response"
      /\ responses[k][1].to = inbound[k].addr
      /\ responses[k][1].drone_id = inbound[k].payload.target_drone
      /\ responses[k][1].command = inbound[k].payload.command

\* C14: an announce processed for a drone_id that is in the registry leaves a
\* record whose fields are the announced ones where the announce carries
\* them and those of the record before where it does not, with last_seen the
\* processing time; for a drone_id that is not in the registry the record is
\* the one built from the announce.
C14_AnnounceMerges ==
  [][\A d \in DOMAIN discovered_drones' :
       (d \in DOMAIN last_announce' /\
        (d \notin DOMAIN last_announce \/ last_announce'[d] # last_announce[d]))
       =>
         LET m == last_announce'[d].message
             new == discovered_drones'[d]
         IN IF d \in DOMAIN discovered_drones
              THEN LET old == discovered_drones[d]
                   IN /\ new.id = d
                      /\ new.name = Get(m, "name", old.name)
                      /\ new.port = Get(m, "port", old.port)
                      /\ new.status = Get(m, "pixhawk_status", old.status)
                      /\ new.last_seen = now
              ELSE new = AnnounceRecord(m, last_announce'[d].addr, now)]_vars

\* The listener threads that have been started and have not ended.
ActiveListeners == {k \in Listeners : lpc[k] \notin {"unborn", "exited"}}

\* The sockets a start_server call has bound.
BoundSockets == {s \in Listeners : sock_state[s] \in {"bound", "closed"}}

\* C15: at most one listener loop is active, and a listener that is in
\* recvfrom is there on the socket the most recent successful start_server
\* bound.
C15_OneListener ==
  /\ Cardinality(ActiveListeners) <= 1
  /\ \A k \in Listeners :
       lpc[k] = "recv" =>
         /\ lsock[k] \in BoundSockets
         /\ \A s \in BoundSockets : s <= lsock[k]

\* C16: a send_command_to_drone call has passed at most one command datagram
\* to sendto, and exactly one when it ends after line 159.
C16_NoRetries ==
  \A t \in Threads :
    /\ th[t].nsent <= 1
    /\ (IsSend(t) /\ th[t].pc = "done" /\ th[t].reply # "none") =>
         th[t].nsent = 1

\* A call has ended on a reply that does not decode, having sent once.
C16_Witness ==
  \E t \in Threads :
    /\ IsSend(t) /\ th[t].pc = "done"
    /\ th[t].reply = "undecodable"
    /\ th[t].result = Failure("JSONDecodeError")
    /\ th[t].nsent = 1

\* C17: no two threads are in recvfrom on the same listener socket.
C17_NoSharedSocket ==
  \A k1, k2 \in Listeners :
    (k1 # k2 /\ lpc[k1] = "recv" /\ lpc[k2] = "recv") => lsock[k1] # lsock[k2]

\* What send_command_to_drone is to be called with for a wrapper call.
ExpectedCommand(w) ==
  CASE w = "get_drone_telemetry" -> "get_telemetry"
    [] w = "arm_drone" -> "arm"
    [] w = "disarm_drone" -> "disarm"
    [] w = "takeoff_drone" -> "takeoff"
    [] w = "land_drone" -> "land"
    [] w = "return_to_launch" -> "return_to_launch"
    [] w = "goto_location" -> "goto_location"

ExpectedParams(w, a) ==
  CASE w = "takeoff_drone" ->
         IF "altitude" \in DOMAIN a THEN [altitude |-> a.altitude]
         ELSE [altitude |-> 10]
    [] w = "goto_location" ->
         IF "altitude" \in DOMAIN a
           THEN [latitude |-> a.latitude, longitude |-> a.longitude,
                 altitude |-> a.altitude]
           ELSE [latitude |-> a.latitude, longitude |-> a.longitude,
                 altitude |-> 50]
    [] OTHER -> EmptyParams

\* C18: a call made through a wrapper is, at every point of its execution,
\* the send_command_to_drone call with the wrapper's command name and
\* params (altitude 10 for takeoff_drone and 50 for goto_location when none
\* is passed, no params for the others): same frame, same datagram.
C18_WrappersAreSendCommand ==
  \A t \in Threads :
    th[t].wrapper # "" =>
      LET f == th[t]
          c == ExpectedCommand(f.wrapper)
          p == ExpectedParams(f.wrapper, f.wargs)
      IN /\ IsSend(t)
         /\ f.command = c
         /\ ParamsOrEmpty(f.params) = p
         /\ (f.sent # NoMsg) =>
              /\ f.sent.command = c
              /\ f.sent.params = p
              /\ f.sent.target_drone = f.drone_id
         /\ (f.pc = "done" /\ f.drone_info.id = "") =>
              f.result = Failure("Drone not found")

\* takeoff_drone called without an altitude has sent its command.
C18_Witness ==
  \E t \in Threads :
    /\ th[t].wrapper = "takeoff_drone"
    /\ th[t].wargs = EmptyParams
    /\ th[t].sent # NoMsg
    /\ th[t].sent.params = [altitude |-> 10]

IsStatusDone(t) == th[t].op = "get_system_status" /\ th[t].pc = "done"

\* C19: every summary get_system_status returns has connected_drones no
\* larger than active_drones, whatever the listener and other callers do
\* during the call.
C19_StatusCounts ==
  \A t \in ReqThreads :
    IsStatusDone(t) => th[t].connected_drones <= th[t].active_drones

IsDecoded(t) == th[t].op = "codec" /\ th[t].pc = "done"

HasNaN(m) == \E k \in DOMAIN m.params : m.params[k] = PyFloat("nan")

\* C20 (as amended): decoding the encoding of a command message whose
\* params hold strings, integers, floats other than NaN, booleans and None
\* under string keys yields a message equal to the original.
C20_RoundTripExceptNaN ==
  \A t \in ReqThreads :
    (IsDecoded(t) /\ ~HasNaN(th[t].msg)) =>
      PyEqMessage(th[t].decoded, th[t].msg)

\* A message with a float and a bool in its params has made the round trip.
C20_Witness ==
  \E t \in ReqThreads :
    /\ IsDecoded(t)
    /\ th[t].msg.params = [altitude |-> PyFloat("10.0"), mode |-> PyBool(TRUE)]
    /\ th[t].wire.params.members.mode = [tok |-> "literal", text |-> "true"]
    /\ PyEqMessage(th[t].decoded, th[t].msg)

\* C20 as stated: decoding the encoding of every command message with
\* primitive params values yields a message equal to the original.
C20_RoundTrip ==
  \A t \in ReqThreads :
    IsDecoded(t) => PyEqMessage(th[t].decoded, th[t].msg)

\* A datagram that is malformed, of a type other than drone_announce and
\* command, or a drone_announce without a drone_id.
IsDropped(dg) ==
  \/ dg.kind # "json"
  \/ MessageType(dg) \notin {"drone_announce", "command"}
  \/ (IsAnnounce(dg) /\ Get(dg.payload, "drone_id", "") = "")

\* C21: the step in which the listener receives a datagram that is
\* malformed, of another type, or an announce without a drone_id leaves the
\* registry as it is, sends no answer and starts no command.
C21_DroppedDatagramNoEffect ==
  [][\A k \in Listeners :
       (lpc[k] = "recv" /\ inbound'[k] # inbound[k] /\ IsDropped(inbound'[k]))
       =>
         /\ discovered_drones' = discovered_drones
         /\ dict_order' = dict_order
         /\ responses' = responses
         /\ th' = th
         /\ lpc'[k] = "check"]_vars

\* An announce without a drone_id has been received with a drone registered.
C21_Witness ==
  \E k \in Listeners :
    /\ lpc[k] = "check"
    /\ inbound[k].kind = "json"
    /\ IsAnnounce(inbound[k])
    /\ "drone_id" \in DOMAIN inbound[k].payload
    /\ inbound[k].payload.drone_id = ""
    /\ DOMAIN discovered_drones # {}
    /\ "" \notin DOMAIN discovered_drones

\* The params the caller of a command supplied: the arguments of the wrapper
\* call, or the params of the inbound command the listener relays.
CallerParams(t) ==
  IF t \in Listeners THEN Get(inbound[t].payload, "params", EmptyParams)
  ELSE th[t].wargs

\* C22: a takeoff command that has been sent carries an altitude, 10 when
\* the caller supplied none, and a goto_location command that has been sent
\* carries an altitude, 50 when the caller supplied none, for wrapper calls
\* and for relayed commands.
C22_AltitudeDefaults ==
  \A t \in Threads :
    (IsSend(t) /\ th[t].sent # NoMsg
       /\ th[t].sent.command \in {"takeoff", "goto_location"}) =>
      /\ "altitude" \in DOMAIN th[t].sent.params
      /\ "altitude" \notin DOMAIN CallerParams(t) =>
           th[t].sent.params.altitude =
             IF th[t].sent.command = "takeoff" THEN 10 ELSE 50

\* C23: a send_command_to_drone call that returns success has received a
\* datagram that carries a result field, and what it returns is that field.
C23_SuccessOnlyFromResult ==
  \A t \in Threads :
    (IsSend(t) /\ th[t].pc = "done" /\ th[t].result.success) =>
      th[t].reply = "result"

\* C24: a send_command_to_drone call for a drone whose record is more than
\* TTL seconds old when the call is made ends at once with a failure and
\* goes on to no lookup and no send.
C24_SendCommandAppliesTTL ==
  [][\A t \in Threads :
       (/\ th[t].op = "idle"
        /\ th'[t].op = "send_command_to_drone"
        /\ th'[t].drone_id \in DOMAIN discovered_drones
        /\ IsExpired(now, discovered_drones[th'[t].drone_id])) =>
         /\ th'[t].pc = "done"
         /\ ~th'[t].result.success]_vars

\* C25: when a send_command_to_drone call is about to return, the socket it
\* created, if any, has been closed.
C25_EphemeralSocketClosed ==
  \A t \in Threads :
    (IsSend(t) /\ th[t].pc = "done") => th[t].sock \in {"none", "closed"}

ReaderOps == {"send_command_to_drone", "get_system_status"}

\* Thread t takes a step of a send_command_to_drone or get_system_status
\* call (the call, a statement of it, or its return).
ReaderStep(t) ==
  /\ th[t].op \in ReaderOps \/ th'[t].op \in ReaderOps
  /\ th'[t].pc # th[t].pc \/ th'[t].it_pos > th[t].it_pos

\* stop_server takes effect.
StopStep == (running /\ ~running') \/ (sock_state' # sock_state /\ nsockets' = nsockets)

\* C26: no step of a send_command_to_drone call, of a get_system_status call
\* or of stop_server changes the registry: the keys, their order and every
\* field of every record are the same after the step.
C26_ReadersLeaveRegistry ==
  [][((\E t \in Threads : ReaderStep(t)) \/ StopStep) =>
       /\ discovered_drones' = discovered_drones
       /\ dict_order' = dict_order]_vars

\* With a drone registered, a command has been sent and has ended, a summary
\* has been computed and the controller has been stopped.
C26_Witness ==
  /\ DOMAIN discovered_drones # {}
  /\ ~running /\ server_socket # 0 /\ sock_state[server_socket] = "closed"
  /\ \E t \in Threads : IsSend(t) /\ th[t].pc = "done" /\ th[t].sent # NoMsg
  /\ \E t \in ReqThreads : IsStatusDone(t) /\ th[t].active_drones > 0

\* C27: while a caller holds the mapping get_discovered_drones returned, a
\* step in which the caller adds or removes an entry of it leaves the
\* registry as it is, and every other step (an announce, an eviction, the
\* clock) leaves the keys of the mapping and every field of its records as
\* they are.
C27_SnapshotIsolated ==
  [][\A t \in ReqThreads :
       (/\ th[t].op = "get_discovered_drones" /\ th[t].pc = "done"
        /\ th'[t].op = "get_discovered_drones" /\ th'[t].pc = "done") =>
         IF th'[t].edited # th[t].edited
           THEN /\ discovered_drones' = discovered_drones
                /\ dict_order' = dict_order
           ELSE Returned(t)' = Returned(t)]_vars

\* A caller holds a mapping it has edited; drone-1 is in it with the record
\* of the registry, was evicted from the registry since, and drone-2 was
\* announced since.
C27_Witness ==
  \E t \in ReqThreads :
    /\ th[t].op = "get_discovered_drones" /\ th[t].pc = "done"
    /\ th[t].edited
    /\ "drone-1" \in DOMAIN Returned(t)
    /\ Returned(t)["drone-1"].name # "caller"
    /\ "drone-1" \notin DOMAIN discovered_drones
    /\ "drone-2" \in DOMAIN discovered_drones
    /\ "drone-2" \in DOMAIN Returned(t) => Returned(t)["drone-2"].name = "caller"

\* C28: every drone id in connected_drones has an entry in drone_status, and
\* no handler and no pass of the monitor loop fails on a missing entry of
\* drone_status.
C28_ConnectedHasStatus ==
  /\ DOMAIN connected_drones \subseteq DOMAIN drone_status
  /\ request.error # "KeyError: drone_status"
  /\ monitor.error # "KeyError: drone_status"

\* The drone is connected and its last successful ping is more than 30 s old.
IsStale(d) ==
  /\ d \in DOMAIN connected_drones
  /\ now - connected_drones[d].last_ping > MonitorTimeout

\* C29: a drone that is connected with a last successful ping more than 30 s
\* old is eventually marked disconnected in drone_status, unless it leaves
\* connected_drones or its ping is refreshed first.
C29_StaleMarkedDisconnected ==
  \A d \in DroneIds :
    IsStale(d) ~> \/ ~IsStale(d)
                  \/ /\ d \in DOMAIN drone_status
                     /\ drone_status[d].status = "disconnected"

\* C30: a ping_drone call for a connected drone that has a status entry
\* leaves its status at 'disconnected' when the ping did not succeed, and
\* changes last_ping only when it succeeded.
C30_FailedPingDisconnects ==
  [][(/\ request'.flip # request.flip
      /\ request'.op = "ping_drone"
      /\ request'.drone_id \in DOMAIN connected_drones
      /\ request'.drone_id \in DOMAIN drone_status) =>
       IF request'.outcome = "200"
         THEN /\ drone_status' = drone_status
              /\ connected_drones' =
                   [connected_drones EXCEPT
                      ![request'.drone_id].last_ping = now]
         ELSE /\ drone_status'[request'.drone_id].status = "disconnected"
              /\ connected_drones' = connected_drones]_vars

====
